---- MODULE Spec2Model ----
(***************************************************************************)
(* State-machine model of jss's RuleList (src/src/RuleList.js) and of the  *)
(* DOM renderer (src/unnamed/part_000).                                    *)
(*                                                                         *)
(* The specifications share the variables:                                 *)
(*   SpecRules     one RuleList driven by add / remove / process           *)
(*   SpecUpdate    one RuleList driven by add / remove / update            *)
(*   SpecLink      one RuleList driven by add / remove / link              *)
(*   SpecDom       several sheets attached to and detached from the head   *)
(*   SpecShared    sheets without insertionPoint on an empty head          *)
(*   SpecRenderer  one sheet's renderer: insertRule, deleteRule,           *)
(*                 replaceRule, deploy, attach, detach                     *)
(***************************************************************************)
EXTENDS Integers, Sequences, FiniteSets, TLC

(***************************************************************************)
(* Bounds and input sets.                                                  *)
(***************************************************************************)
\* Rules ever created by one RuleList (bounds the rule ids).
MaxRules == 2

\* Rule names passed to add().
Names == {"a", "b"}

\* Class names the generateClassName collaborator may return.
ClassNames == {"c1", "c2"}

\* Values of options.selector passed to add() ("a" is also a rule name).
ExplicitSelectors == {"a", ".c1"}

\* Style declarations passed to add().
Decls == {"empty", "red"}

\* Sheets ever created (bounds the sheets registry).
MaxSheets == 2

\* Native rules in one style element (bounds insertRule).
MaxCssRules == 2

\* Values of a sheet's options.index.
Priorities == {1, 2}

\* Sheets ever created when all of them share one insertionPoint.
MaxSharedSheets == 3

\* JavaScript's undefined, for strings and for numbers.
Undefined == "undefined"
NoIndex == -2

\* No rule (what a missing property of `map` reads as).
NoRule == 0

\* CSSRuleTypes
STYLE_RULE == 1
KEYFRAMES_RULE == 7

\* No native rule (a rule that link() has bound to nothing).
NoCssRule == [id |-> "none"]

(***************************************************************************)
(* State of one RuleList.                                                  *)
(***************************************************************************)
VARIABLES
  rules,     \* every Rule object ever created, by identity (its position)
  map,       \* RuleList.map: property name -> rule
  raw,       \* RuleList.raw: name -> declaration
  index,     \* RuleList.index: the ordered sequence of rules
  classes,   \* RuleList.classes (options.classes): name -> class name
  listOptions,  \* RuleList.options, as far as link() reads them
  pass       \* the process() or update() call in flight, if any

ruleVars == <<rules, map, raw, index, classes, listOptions, pass>>

(***************************************************************************)
(* State of the sheets and of the document.                                *)
(***************************************************************************)
VARIABLES
  sheets,            \* every StyleSheet ever created: its options
  registry,          \* sheets.registry
  attached,          \* StyleSheet.attached, by sheet
  deployed,          \* StyleSheet.deployed, by sheet
  head,              \* head.childNodes
  textContent,       \* renderer.element.textContent, by sheet
  cssRules,          \* renderer.element.sheet.cssRules, by sheet
  hasInsertedRules,  \* renderer.hasInsertedRules, by sheet
  last               \* the last call: what it was and what it did

domVars == <<sheets, registry, attached, deployed, head, textContent, cssRules,
             hasInsertedRules, last>>

vars == <<ruleVars, domVars>>

(***************************************************************************)
(* JavaScript array helpers.                                               *)
(***************************************************************************)
Min(a, b) == IF a < b THEN a ELSE b
Max(a, b) == IF a > b THEN a ELSE b

Range(s) == {s[i] : i \in 1..Len(s)}

\* Array.prototype.indexOf: 0-based position of the first occurrence, or -1.
IndexOf(s, x) ==
  IF \E i \in 1..Len(s) : s[i] = x
  THEN (CHOOSE i \in 1..Len(s) : s[i] = x /\ \A j \in 1..(i - 1) : s[j] # x) - 1
  ELSE -1

\* Array.prototype.splice(start, deleteCount, ...items): a negative start
\* counts from the end, a start beyond the end is the end.
Splice(s, start, deleteCount, items) ==
  LET len == Len(s)
      from == IF start < 0 THEN Max(len + start, 0) ELSE Min(start, len)
      del == Min(Max(deleteCount, 0), len - from)
  IN SubSeq(s, 1, from) \o items \o SubSeq(s, from + del + 1, len)

\* obj[k] of a JavaScript object used as a dictionary.
Prop(obj, k, absent) == IF k \in DOMAIN obj THEN obj[k] ELSE absent

\* obj[k] = v
SetProp(obj, k, v) == [x \in DOMAIN obj \cup {k} |-> IF x = k THEN v ELSE obj[x]]

\* delete obj[k]
DeleteProp(obj, k) == [x \in DOMAIN obj \ {k} |-> obj[x]]

EmptyObj == [x \in {} |-> 0]

(***************************************************************************)
(* RuleList.                                                               *)
(***************************************************************************)
\* createRule(name, decl, options): the new Rule object. A StyleRule carries
\* options.selector; other rules have no selector. data is what the rule's
\* function values were last computed from, renderable the native rule the
\* rule is bound to: nothing, for a new rule.
createRule(name, decl, isStyle, selector) ==
  [key |-> name, decl |-> decl, style |-> isStyle,
   selector |-> IF isStyle THEN selector ELSE Undefined,
   data |-> Undefined, renderable |-> NoCssRule]

\* RuleList.register, on the map.
registerMap(m, rule, id) ==
  LET m1 == SetProp(m, rule.key, id)
  IN IF rule.style THEN SetProp(m1, rule.selector, id) ELSE m1

\* RuleList.register, on the classes.
registerClasses(c, rule, className) ==
  IF rule.style /\ className # Undefined THEN SetProp(c, rule.key, className) ELSE c

\* RuleList.unregister, on the map.
unregisterMap(m, rule) ==
  LET m1 == DeleteProp(m, rule.key)
  IN IF rule.style THEN DeleteProp(m1, rule.selector) ELSE m1

\* RuleList.unregister, on the classes.
unregisterClasses(c, rule) ==
  IF rule.style THEN DeleteProp(c, rule.key) ELSE c

\* RuleList.indexOf
indexOf(idx, id) == IndexOf(idx, id)

\* RuleList.get
get(m, name) == Prop(m, name, NoRule)

\* The registry as one value, so that add and remove compose inside a hook.
Registry == [rules |-> rules, map |-> map, raw |-> raw, index |-> index, classes |-> classes]

\* RuleList.add(name, decl, {selector, index}) on registry r. isStyle is what
\* createRule makes of the name, generated what generateClassName returns.
add(r, name, decl, isStyle, optSelector, optIndex, generated) ==
  LET sel0 == IF optSelector = Undefined /\ name \in DOMAIN r.classes
              THEN "." \o r.classes[name] ELSE optSelector
      gen == sel0 = Undefined /\ isStyle
      className == IF gen THEN generated ELSE Undefined
      sel == IF gen THEN "." \o generated ELSE sel0
      rule == createRule(name, decl, isStyle, sel)
      id == Len(r.rules) + 1
      at == IF optIndex = NoIndex THEN Len(r.index) ELSE optIndex
  IN [rules |-> Append(r.rules, rule),
      map |-> registerMap(r.map, rule, id),
      raw |-> SetProp(r.raw, name, decl),
      index |-> Splice(r.index, at, 0, <<id>>),
      classes |-> registerClasses(r.classes, rule, className)]

\* RuleList.remove(rule) on registry r.
remove(r, id) ==
  [rules |-> r.rules,
   map |-> unregisterMap(r.map, r.rules[id]),
   raw |-> r.raw,
   index |-> Splice(r.index, indexOf(r.index, id), 1, <<>>),
   classes |-> unregisterClasses(r.classes, r.rules[id])]

SetRegistry(r) ==
  /\ rules' = r.rules
  /\ map' = r.map
  /\ raw' = r.raw
  /\ index' = r.index
  /\ classes' = r.classes

\* The arguments of one add() call on a registry whose sequence is idx.
AddArgs(idx) ==
  [name : Names, decl : Decls, isStyle : BOOLEAN,
   selector : ExplicitSelectors \cup {Undefined},
   at : (0..Len(idx)) \cup {NoIndex},
   generated : ClassNames]

AddWith(r, a) == add(r, a.name, a.decl, a.isStyle, a.selector, a.at, a.generated)

Idle == pass.kind = "none"

NoPass ==
  [kind |-> "none", snapshot |-> <<>>, pos |-> 0, visited |-> <<>>, data |-> Undefined]

\* rules.add(name, decl, options)
Add ==
  /\ Idle
  /\ Len(rules) < MaxRules
  /\ \E a \in AddArgs(index) : SetRegistry(AddWith(Registry, a))
  /\ UNCHANGED <<pass, listOptions, domVars>>

\* rules.remove(rule), for any rule object the caller holds.
RemoveRule(id) ==
  /\ Idle
  /\ SetRegistry(remove(Registry, id))
  /\ UNCHANGED <<pass, listOptions, domVars>>

Remove == \E id \in 1..Len(rules) : RemoveRule(id)

\* forEach over the live sequence instead of a clone of it.
passArrayLive(p, idx) == idx

\* The array process() walks: a clone of the sequence, made when it is called
\* (this.index.slice(0)), so the hook's changes to the sequence do not reach it.
passArray(p, idx) == p.snapshot

\* rules.process(): clone the sequence and start forEach over the clone.
Process ==
  /\ Idle
  /\ pass' = [kind |-> "process", snapshot |-> index, pos |-> 0, visited |-> <<>>,
              data |-> Undefined]
  /\ UNCHANGED <<rules, map, raw, index, classes, listOptions, domVars>>

\* What one call of the plugins' onProcessRule hook does to the registry:
\* nothing, an add or a remove.
HookEffects(r) ==
  {r}
    \cup (IF Len(r.rules) < MaxRules THEN {AddWith(r, a) : a \in AddArgs(r.index)} ELSE {})
    \cup {remove(r, id) : id \in 1..Len(r.rules)}

\* One iteration of forEach: element pass.pos of the walked array, if the array
\* still has one there, goes to the hook.
OnProcessRule ==
  /\ pass.kind = "process"
  /\ pass.pos < Len(pass.snapshot)
  /\ LET arr == passArray(pass, index)
         k == pass.pos + 1
     IN /\ pass' = [pass EXCEPT !.pos = k,
                       !.visited = IF k <= Len(arr) THEN Append(@, arr[k]) ELSE @]
        /\ \E r \in HookEffects(Registry) : SetRegistry(r)
  /\ UNCHANGED <<listOptions, domVars>>

\* forEach is over: process() returns.
ProcessReturn ==
  /\ pass.kind = "process"
  /\ pass.pos = Len(pass.snapshot)
  /\ pass' = NoPass
  /\ UNCHANGED <<rules, map, raw, index, classes, listOptions, domVars>>

\* Values of the data argument of update().
Datas == {"blue", "green"}

\* updateStyle(rule, data, RuleList): the function values of a style rule are
\* computed again from data; a rule of another kind has none.
updateStyle(rule, data) ==
  IF rule.style THEN [rule EXCEPT !.data = data] ELSE rule

\* RuleList.update(name, data) with a string name, on registry r: the rule is
\* the one get(name) returns. With no rule under that name updateStyle has
\* nothing to regenerate and no rule of the registry is touched.
updateByName(r, name, data) ==
  LET id == get(r.map, name)
  IN IF id = NoRule THEN r
     ELSE [r EXCEPT !.rules[id] = updateStyle(@, data)]

\* rules.update(name, data)
UpdateNamed(name, data) ==
  /\ Idle
  /\ SetRegistry(updateByName(Registry, name, data))
  /\ UNCHANGED <<pass, listOptions, domVars>>

UpdateByName == \E name \in Names, data \in Datas : UpdateNamed(name, data)

\* rules.update(data): the for loop starts at position 0 of this.index. The
\* pass remembers the sequence as it was at the call, for reference only.
UpdateAll ==
  /\ Idle
  /\ \E data \in Datas :
       pass' = [kind |-> "update", snapshot |-> index, pos |-> 0, visited |-> <<>>,
                data |-> data]
  /\ UNCHANGED <<rules, map, raw, index, classes, listOptions, domVars>>

\* One iteration of the loop of update(): index < this.index.length is read
\* from the live sequence, and so is this.index[index]. The rule's function
\* values are computed again; what they do to the registry meanwhile is
\* nothing, an add or a remove.
OnUpdateRule ==
  /\ pass.kind = "update"
  /\ pass.pos < Len(index)
  /\ LET id == index[pass.pos + 1]
         r1 == [Registry EXCEPT !.rules[id] = updateStyle(@, pass.data)]
     IN /\ pass' = [pass EXCEPT !.pos = @ + 1, !.visited = Append(@, id)]
        /\ \E r \in HookEffects(r1) : SetRegistry(r)
  /\ UNCHANGED <<listOptions, domVars>>

\* The loop's condition fails: update() returns.
UpdateDone == pass.kind = "update" /\ pass.pos >= Len(index)

UpdateReturn ==
  /\ UpdateDone
  /\ pass' = NoPass
  /\ UNCHANGED <<rules, map, raw, index, classes, listOptions, domVars>>

(***************************************************************************)
(* The document: nodes, and the DOM operations the renderer uses.          *)
(***************************************************************************)
\* null, where a node is expected.
NoNode == [kind |-> "null", id |-> 0]

\* The <style> element a renderer creates for sheet s.
Style(s) == [kind |-> "style", id |-> s]

\* Other nodes of the document: a comment <!-- jss -->, a <title> element and
\* an element callers use as an insertion point.
JssComment == [kind |-> "comment", id |-> 1]
Title == [kind |-> "element", id |-> 1]
Point == [kind |-> "element", id |-> 2]

\* node.nodeValue of a comment, as characters.
nodeValue(node) == IF node = JssComment THEN <<" ", "jss", " ">> ELSE <<>>

\* String.prototype.trim, on a sequence of characters.
RECURSIVE trimLeft(_)
trimLeft(cs) == IF cs # <<>> /\ Head(cs) = " " THEN trimLeft(Tail(cs)) ELSE cs

RECURSIVE trimRight(_)
trimRight(cs) ==
  IF cs # <<>> /\ cs[Len(cs)] = " " THEN trimRight(SubSeq(cs, 1, Len(cs) - 1)) ELSE cs

trim(cs) == trimRight(trimLeft(cs))

\* The head's child nodes when the page loads.
InitialHeads ==
  { <<>>,
    <<JssComment, Title>>,
    <<Point, JssComment>> }

\* Values of a sheet's options.insertionPoint: undefined, a string or a node.
IPUndefined == [type |-> "undefined", text |-> "", node |-> NoNode]
IPString(t) == [type |-> "string", text |-> t, node |-> NoNode]
IPNode(n) == [type |-> "node", text |-> "", node |-> n]

InsertionPoints == {IPUndefined, IPString("jss"), IPString("custom"), IPNode(Point)}

\* node.parentNode is not null (the head is the only parent of the model).
hasParent(h, node) == node \in Range(h)

\* node.nextSibling
nextSibling(h, node) ==
  LET i == IndexOf(h, node) + 1
  IN IF i >= 1 /\ i < Len(h) THEN h[i + 1] ELSE NoNode

\* node.nextElementSibling: the next sibling that is an element.
nextElementSibling(h, node) ==
  LET i == IndexOf(h, node) + 1
      after == {j \in (i + 1)..Len(h) : h[j].kind # "comment"}
  IN IF i >= 1 /\ after # {}
     THEN h[CHOOSE j \in after : \A k \in after : j <= k]
     ELSE NoNode

\* parent.removeChild(node)
removeChild(h, node) == SelectSeq(h, LAMBDA n : n # node)

\* parent.insertBefore(node, ref): node leaves its place, if it has one, and
\* goes before ref, or to the end when ref is null.
insertBefore(h, node, ref) ==
  LET rest == removeChild(h, node)
      at == IndexOf(rest, ref)
  IN IF ref = NoNode \/ at = -1 THEN Append(rest, node)
     ELSE SubSeq(rest, 1, at) \o <<node>> \o SubSeq(rest, at + 1, Len(rest))

(***************************************************************************)
(* Sheets.                                                                 *)
(***************************************************************************)
\* No sheet (null).
NoSheet == 0

\* renderer.element of sheet s: options.element, or the element created.
element(s) == IF sheets[s].element = NoNode THEN Style(s) ELSE sheets[s].element

\* findHigherSheet(registry, options)
findHigherSheet(reg, options) ==
  LET hits == {i \in 1..Len(reg) :
                 /\ attached[reg[i]]
                 /\ sheets[reg[i]].index > options.index
                 /\ sheets[reg[i]].insertionPoint = options.insertionPoint}
  IN IF hits = {} THEN NoSheet ELSE reg[CHOOSE i \in hits : \A j \in hits : i <= j]

\* findHighestSheet(registry, options)
findHighestSheet(reg, options) ==
  LET hits == {i \in 1..Len(reg) :
                 /\ attached[reg[i]]
                 /\ sheets[reg[i]].insertionPoint = options.insertionPoint}
  IN IF hits = {} THEN NoSheet ELSE reg[CHOOSE i \in hits : \A j \in hits : i >= j]

\* findCommentNode(text)
findCommentNode(h, text) ==
  LET hits == {i \in 1..Len(h) : h[i].kind = "comment" /\ trim(nodeValue(h[i])) = <<text>>}
  IN IF hits = {} THEN NoNode ELSE h[CHOOSE i \in hits : \A j \in hits : i <= j]

\* findPrevNode warning of every marker it does not find, the default one too.
findPrevNodeAlwaysWarns(h, options) ==
  LET higher == findHigherSheet(registry, options)
      highest == findHighestSheet(registry, options)
      ip == options.insertionPoint
      comment == findCommentNode(h, ip.text)
  IN IF Len(registry) > 0 /\ higher # NoSheet
       THEN [node |-> element(higher), warnings |-> 0]
     ELSE IF Len(registry) > 0 /\ highest # NoSheet
       THEN [node |-> nextElementSibling(h, element(highest)), warnings |-> 0]
     ELSE IF ip.type = "string" /\ comment # NoNode
       THEN [node |-> nextSibling(h, comment), warnings |-> 0]
     ELSE IF ip.type = "string"
       THEN [node |-> NoNode, warnings |-> 1]
     ELSE [node |-> NoNode, warnings |-> 0]

\* findPrevNode(options): the node found (or null) and the warnings emitted.
findPrevNode(h, options) ==
  LET higher == findHigherSheet(registry, options)
      highest == findHighestSheet(registry, options)
      ip == options.insertionPoint
      comment == findCommentNode(h, ip.text)
  IN IF Len(registry) > 0 /\ higher # NoSheet
       THEN [node |-> element(higher), warnings |-> 0]
     ELSE IF Len(registry) > 0 /\ highest # NoSheet
       THEN [node |-> nextElementSibling(h, element(highest)), warnings |-> 0]
     ELSE IF ip.type = "string" /\ comment # NoNode
       THEN [node |-> nextSibling(h, comment), warnings |-> 0]
     ELSE IF ip.type = "string"
       THEN [node |-> NoNode, warnings |-> IF ip.text = "jss" THEN 0 ELSE 1]
     ELSE [node |-> NoNode, warnings |-> 0]

\* insertStyle(style, options): the head afterwards and the warnings emitted.
insertStyle(h, style, options) ==
  LET ip == options.insertionPoint
      prev == findPrevNode(h, options)
  IN IF prev.node # NoNode
       THEN [head |-> IF hasParent(h, prev.node) THEN insertBefore(h, style, prev.node) ELSE h,
             warnings |-> prev.warnings]
     ELSE IF ip.type = "node"
       THEN IF hasParent(h, ip.node)
            THEN [head |-> insertBefore(h, style, nextSibling(h, ip.node)),
                  warnings |-> prev.warnings]
            ELSE [head |-> h, warnings |-> prev.warnings + 1]
     ELSE [head |-> insertBefore(h, style, NoNode), warnings |-> prev.warnings]

(***************************************************************************)
(* Serialization, and the renderer of one sheet.                           *)
(***************************************************************************)
\* rule.toString(): the rule's CSS, a sequence of text pieces; empty for a
\* rule with an empty declaration. The values computed from the data of the
\* last update follow the declaration.
ruleToString(rule) ==
  IF rule.decl = "empty" THEN <<>>
  ELSE <<(IF rule.style THEN rule.selector ELSE rule.key) \o " {" \o rule.decl
           \o (IF rule.data = Undefined THEN "" ELSE ";" \o rule.data) \o "}">>

\* The loop of toString with the separator added before every serialization,
\* the first one too.
RECURSIVE toStringFromAlwaysSeparates(_, _, _, _)
toStringFromAlwaysSeparates(rs, idx, i, str) ==
  IF i > Len(idx) THEN str
  ELSE LET css == ruleToString(rs[idx[i]])
       IN IF css = <<>> THEN toStringFromAlwaysSeparates(rs, idx, i + 1, str)
          ELSE toStringFromAlwaysSeparates(rs, idx, i + 1, str \o <<"\n">> \o css)

\* RuleList.toString: the loop from position i on, str being the text so far.
RECURSIVE toStringFrom(_, _, _, _)
toStringFrom(rs, idx, i, str) ==
  IF i > Len(idx) THEN str
  ELSE LET css == ruleToString(rs[idx[i]])
       IN IF css = <<>> THEN toStringFrom(rs, idx, i + 1, str)
          ELSE toStringFrom(rs, idx, i + 1,
                            (IF str # <<>> THEN str \o <<"\n">> ELSE str) \o css)

\* RuleList.toString
toString(rs, idx) == toStringFrom(rs, idx, 1, <<>>)

\* sheet.toString(): the serialization of the sheet's RuleList. Sheet 1 owns
\* the RuleList of the model, the other sheets have no rules.
sheetToString(s) == IF s = 1 THEN toString(rules, index) ELSE <<>>

\* The engine parsing a style element's text into its native rules.
parse(text) ==
  LET css == SelectSeq(text, LAMBDA t : t # "\n")
  IN [i \in 1..Len(css) |-> [id |-> i, text |-> css[i]]]

\* The renderer-side state a call works on, with what the call emitted and
\* returned.
Dom ==
  [head |-> head, textContent |-> textContent, cssRules |-> cssRules,
   hasInsertedRules |-> hasInsertedRules,
   warnings |-> 0, thrown |-> FALSE, events |-> <<>>, returned |-> Undefined]

\* DomRenderer.deploy: the text is overwritten; a connected element's native
\* rules are those the engine parses from the new text.
deploy(d, s) ==
  LET text == <<"\n">> \o sheetToString(s) \o <<"\n">>
  IN [d EXCEPT !.textContent[s] = text,
               !.cssRules[s] = IF hasParent(d.head, element(s)) THEN parse(text) ELSE @,
               !.events = Append(@, "deploy")]

\* attach without the redeploy.
redeployNever(d, s) == d

\* The redeploy of DomRenderer.attach: deploy and clear the flag, if the flag
\* is set.
redeploy(d, s) ==
  IF d.hasInsertedRules[s]
  THEN [deploy(d, s) EXCEPT !.hasInsertedRules[s] = FALSE, !.events = Append(@, "reset")]
  ELSE d

\* DomRenderer.attach
rendererAttach(d, s) ==
  IF hasParent(d.head, element(s)) THEN d
  ELSE LET d1 == redeploy(d, s)
           ins == insertStyle(d1.head, element(s), sheets[s])
           inserted == hasParent(ins.head, element(s))
       IN [d1 EXCEPT !.head = ins.head,
                     !.cssRules[s] = IF inserted THEN parse(d1.textContent[s]) ELSE @,
                     !.warnings = @ + ins.warnings,
                     !.events = IF inserted THEN Append(@, "insert") ELSE @]

\* DomRenderer.detach: element.parentNode.removeChild(element) is a TypeError
\* when the element has no parent.
rendererDetach(d, s) ==
  IF ~hasParent(d.head, element(s)) THEN [d EXCEPT !.thrown = TRUE]
  ELSE [d EXCEPT !.head = removeChild(@, element(s)),
                 !.cssRules[s] = <<>>,
                 !.events = Append(@, "remove")]

\* The call leaves the renderer-side state d.
SetDom(d, op) ==
  /\ head' = d.head
  /\ textContent' = d.textContent
  /\ cssRules' = d.cssRules
  /\ hasInsertedRules' = d.hasInsertedRules
  /\ last' = [op |-> op, warnings |-> d.warnings, thrown |-> d.thrown,
              events |-> d.events, returned |-> d.returned]

\* The options of a new sheet; callers pass no element of their own.
SheetOptions ==
  [index : Priorities, insertionPoint : InsertionPoints, element : {NoNode}]

\* sheets.add(sheet): the registry keeps the sheets in the order of creation.
sheetsAdd(reg, s) == Append(reg, s)

\* new StyleSheet(options): its renderer registers it (sheets.add).
CreateSheet ==
  /\ Len(sheets) < MaxSheets
  /\ \E o \in SheetOptions : sheets' = Append(sheets, o)
  /\ registry' = sheetsAdd(registry, Len(sheets) + 1)
  /\ attached' = Append(attached, FALSE)
  /\ deployed' = Append(deployed, FALSE)
  /\ textContent' = Append(textContent, <<>>)
  /\ cssRules' = Append(cssRules, <<>>)
  /\ hasInsertedRules' = Append(hasInsertedRules, FALSE)
  /\ last' = [op |-> "create", warnings |-> 0, thrown |-> FALSE, events |-> <<>>,
              returned |-> Undefined]
  /\ UNCHANGED <<head, ruleVars>>

\* sheet.attach(): nothing when attached; else deploy if never deployed, then
\* renderer.attach(), then attached = true.
SheetAttach(s) ==
  /\ Idle
  /\ IF attached[s]
     THEN SetDom(Dom, "attach") /\ UNCHANGED <<attached, deployed>>
     ELSE /\ SetDom(rendererAttach(IF deployed[s] THEN Dom ELSE deploy(Dom, s), s),
                    "attach")
          /\ attached' = [attached EXCEPT ![s] = TRUE]
          /\ deployed' = [deployed EXCEPT ![s] = TRUE]
  /\ UNCHANGED <<sheets, registry, ruleVars>>

\* sheet.detach(): nothing when not attached; else renderer.detach(), then
\* attached = false.
SheetDetach(s) ==
  /\ Idle
  /\ IF ~attached[s]
     THEN SetDom(Dom, "detach") /\ UNCHANGED attached
     ELSE LET d == rendererDetach(Dom, s)
          IN /\ SetDom(d, "detach")
             /\ attached' = IF d.thrown THEN attached ELSE [attached EXCEPT ![s] = FALSE]
  /\ UNCHANGED <<sheets, registry, deployed, ruleVars>>

Attach == \E s \in 1..Len(sheets) : SheetAttach(s)

Detach == \E s \in 1..Len(sheets) : SheetDetach(s)

NoCall ==
  [op |-> "none", warnings |-> 0, thrown |-> FALSE, events |-> <<>>, returned |-> Undefined]

InitRuleVars ==
  /\ rules = <<>>
  /\ map = EmptyObj
  /\ raw = EmptyObj
  /\ index = <<>>
  /\ classes = EmptyObj
  /\ listOptions = [supportEscaping |-> FALSE]
  /\ pass = NoPass

InitDomVars ==
  /\ sheets = <<>>
  /\ registry = <<>>
  /\ attached = <<>>
  /\ deployed = <<>>
  /\ textContent = <<>>
  /\ cssRules = <<>>
  /\ hasInsertedRules = <<>>
  /\ last = NoCall

InitDom ==
  /\ InitRuleVars
  /\ InitDomVars
  /\ head \in InitialHeads

NextDom ==
  \/ CreateSheet
  \/ Attach
  \/ Detach

SpecDom == InitDom /\ [][NextDom]_vars

\* new StyleSheet({index}): a sheet without an insertionPoint, as every other
\* sheet of the page.
CreateSharedSheet ==
  /\ Len(sheets) < MaxSharedSheets
  /\ \E i \in Priorities :
       sheets' = Append(sheets, [index |-> i, insertionPoint |-> IPUndefined,
                                 element |-> NoNode])
  /\ registry' = sheetsAdd(registry, Len(sheets) + 1)
  /\ attached' = Append(attached, FALSE)
  /\ deployed' = Append(deployed, FALSE)
  /\ textContent' = Append(textContent, <<>>)
  /\ cssRules' = Append(cssRules, <<>>)
  /\ hasInsertedRules' = Append(hasInsertedRules, FALSE)
  /\ last' = [op |-> "create", warnings |-> 0, thrown |-> FALSE, events |-> <<>>,
              returned |-> Undefined]
  /\ UNCHANGED <<head, ruleVars>>

\* A page whose head holds nothing but the containers of the sheets.
InitShared ==
  /\ InitRuleVars
  /\ InitDomVars
  /\ head = <<>>

NextShared ==
  \/ CreateSharedSheet
  \/ Attach
  \/ Detach

SpecShared == InitShared /\ [][NextShared]_vars

\* An identity no native rule of list l has.
newNativeId(l) ==
  CHOOSE n \in 1..(Len(l) + 1) : \A i \in 1..Len(l) : l[i].id # n

\* What a call that returns false or true returns.
False == "false"
True == "true"

\* insertRule setting the flag before it asks the engine.
insertRuleFlagsFirst(d, s, rule, optIndex, accepted) ==
  IF ~hasParent(d.head, element(s)) THEN [d EXCEPT !.thrown = TRUE]
  ELSE LET list == d.cssRules[s]
           str == ruleToString(rule)
           at == IF optIndex = NoIndex \/ optIndex = 0 THEN Len(list) ELSE optIndex
           l2 == Splice(list, at, 0, <<[id |-> newNativeId(list), text |-> str[1]]>>)
       IN IF str = <<>> THEN [d EXCEPT !.returned = False]
          ELSE IF ~accepted \/ at > Len(list) \/ at < 0
            THEN [d EXCEPT !.warnings = @ + 1, !.hasInsertedRules[s] = TRUE,
                           !.returned = False]
          ELSE [d EXCEPT !.cssRules[s] = l2,
                         !.hasInsertedRules[s] = TRUE,
                         !.events = Append(@, "insertRule"),
                         !.returned = l2[at + 1]]

\* DomRenderer.insertRule(rule, index). accepted: whether the engine takes the
\* rule's text; it takes no index outside the list either. A style element
\* that is not in the document has no sheet (element.sheet is null), and
\* reading its cssRules is a TypeError. What is returned is cssRules[index]
\* of the list after the insertion.
insertRule(d, s, rule, optIndex, accepted) ==
  IF ~hasParent(d.head, element(s)) THEN [d EXCEPT !.thrown = TRUE]
  ELSE LET list == d.cssRules[s]
           str == ruleToString(rule)
           at == IF optIndex = NoIndex \/ optIndex = 0 THEN Len(list) ELSE optIndex
           l2 == Splice(list, at, 0, <<[id |-> newNativeId(list), text |-> str[1]]>>)
       IN IF str = <<>> THEN [d EXCEPT !.returned = False]
          ELSE IF ~accepted \/ at > Len(list) \/ at < 0
            THEN [d EXCEPT !.warnings = @ + 1, !.returned = False]
          ELSE [d EXCEPT !.cssRules[s] = l2,
                         !.hasInsertedRules[s] = TRUE,
                         !.events = Append(@, "insertRule"),
                         !.returned = l2[at + 1]]

\* renderer.insertRule(rule, index), for rule r of the sheet's RuleList.
InsertRuleWith(r, at, accepted) ==
  /\ Idle
  /\ Len(cssRules[1]) < MaxCssRules
  /\ SetDom(insertRule(Dom, 1, rules[r], at, accepted), "insertRule")
  /\ UNCHANGED <<sheets, registry, attached, deployed, ruleVars>>

InsertRule ==
  \E r \in 1..Len(rules), accepted \in BOOLEAN :
    \E at \in (0..Len(cssRules[1])) \cup {NoIndex} : InsertRuleWith(r, at, accepted)

\* DomRenderer.indexOf(cssRule)
rendererIndexOf(list, cssRule) == IndexOf(list, cssRule)

\* sheet.deleteRule(index) of the engine: an index outside the list is an
\* IndexSizeError.
nativeDeleteRule(d, s, at) ==
  IF at < 0 \/ at >= Len(d.cssRules[s]) THEN [d EXCEPT !.thrown = TRUE]
  ELSE [d EXCEPT !.cssRules[s] = Splice(@, at, 1, <<>>),
                 !.events = Append(@, "deleteRule")]

\* DomRenderer.deleteRule(cssRule)
deleteRule(d, s, cssRule) ==
  IF ~hasParent(d.head, element(s)) THEN [d EXCEPT !.thrown = TRUE]
  ELSE LET at == rendererIndexOf(d.cssRules[s], cssRule)
       IN IF at = -1 THEN [d EXCEPT !.returned = False]
          ELSE [nativeDeleteRule(d, s, at) EXCEPT !.returned = True]

\* DomRenderer.replaceRule(cssRule, rule): the index of cssRule, insertRule
\* at that index, the engine's deleteRule at that same index; what insertRule
\* returned is returned.
replaceRule(d, s, cssRule, rule, accepted) ==
  IF ~hasParent(d.head, element(s)) THEN [d EXCEPT !.thrown = TRUE]
  ELSE LET at == rendererIndexOf(d.cssRules[s], cssRule)
           d1 == insertRule(d, s, rule, at, accepted)
       IN nativeDeleteRule(d1, s, at)

\* renderer.deleteRule(cssRule), for a native rule of the container.
DeleteRule ==
  /\ Idle
  /\ \E i \in 1..Len(cssRules[1]) :
       SetDom(deleteRule(Dom, 1, cssRules[1][i]), "deleteRule")
  /\ UNCHANGED <<sheets, registry, attached, deployed, ruleVars>>

\* renderer.replaceRule(cssRule, rule), for the native rule at position i
\* (from 1) of the container and rule r of the sheet's RuleList.
ReplaceRuleWith(i, r, accepted) ==
  /\ Idle
  /\ SetDom(replaceRule(Dom, 1, cssRules[1][i], rules[r], accepted), "replaceRule")
  /\ UNCHANGED <<sheets, registry, attached, deployed, ruleVars>>

ReplaceRule ==
  \E i \in 1..Len(cssRules[1]), r \in 1..Len(rules), accepted \in BOOLEAN :
    ReplaceRuleWith(i, r, accepted)

\* sheet.deploy(): renderer.deploy(), then deployed = true.
Deploy ==
  /\ Idle
  /\ \E s \in 1..Len(sheets) :
       /\ SetDom(deploy(Dom, s), "deploy")
       /\ deployed' = [deployed EXCEPT ![s] = TRUE]
  /\ UNCHANGED <<sheets, registry, attached, ruleVars>>

\* sheet.addRule(name, decl): rules.add with the default options.
AddRule ==
  /\ Idle
  /\ Len(rules) < MaxRules
  /\ \E a \in AddArgs(index) :
       /\ a.isStyle
       /\ a.selector = Undefined
       /\ a.at = NoIndex
       /\ a.generated = "c1"
       /\ SetRegistry(AddWith(Registry, a))
  /\ UNCHANGED <<pass, listOptions, domVars>>

\* One sheet has been created; the head is empty.
InitRenderer ==
  /\ InitRuleVars
  /\ \E ip \in {IPUndefined, IPNode(Point)} :
       sheets = <<[index |-> 1, insertionPoint |-> ip, element |-> NoNode]>>
  /\ registry = <<1>>
  /\ attached = <<FALSE>>
  /\ deployed = <<FALSE>>
  /\ textContent = << <<>> >>
  /\ cssRules = << <<>> >>
  /\ hasInsertedRules = <<FALSE>>
  /\ last = NoCall
  /\ head = <<>>

NextRenderer ==
  \/ AddRule
  \/ InsertRule
  \/ DeleteRule
  \/ ReplaceRule
  \/ Deploy
  \/ Attach
  \/ Detach

SpecRenderer == InitRenderer /\ [][NextRenderer]_vars

InitRules ==
  /\ InitRuleVars
  /\ InitDomVars
  /\ head = <<>>

NextRules ==
  \/ Add
  \/ Remove
  \/ Process
  \/ OnProcessRule
  \/ ProcessReturn

SpecRules == InitRules /\ [][NextRules]_vars

NextUpdate ==
  \/ Add
  \/ Remove
  \/ UpdateByName
  \/ UpdateAll
  \/ OnUpdateRule
  \/ UpdateReturn

SpecUpdate == InitRules /\ [][NextUpdate]_vars

(***************************************************************************)
(* The Rule Linker: getSelector and RuleList.link.                         *)
(***************************************************************************)
\* String.prototype.indexOf, on sequences of characters: the 0-based position
\* of the first occurrence of pat, or -1.
indexOfString(cs, pat) ==
  LET hits == {i \in 0..(Len(cs) - Len(pat)) : SubSeq(cs, i + 1, i + Len(pat)) = pat}
  IN IF hits = {} THEN -1 ELSE CHOOSE i \in hits : \A j \in hits : i <= j

\* String.prototype.substr(from, length): length characters from position
\* from, as far as the string has them; a negative from counts from the end.
substr(cs, from, length) ==
  LET start == IF from < 0 THEN Max(Len(cs) + from, 0) ELSE Min(from, Len(cs))
      n == Max(0, Min(length, Len(cs) - start))
  IN SubSeq(cs, start + 1, start + n)

\* The string a sequence of characters spells.
RECURSIVE Join(_)
Join(cs) == IF cs = <<>> THEN "" ELSE Head(cs) \o Join(Tail(cs))

\* extractSelector(cssText, from)
extractSelector(cssText, from) ==
  substr(cssText, from, indexOfString(cssText, <<"{">>) - 1)

\* getSelector(cssRule)
getSelector(cssRule) ==
  IF cssRule.type = STYLE_RULE THEN cssRule.selectorText
  ELSE IF cssRule.type = KEYFRAMES_RULE
    THEN IF cssRule.name # ""
         THEN "@keyframes " \o cssRule.name
         ELSE "@" \o Join(extractSelector(cssRule.cssText,
                    indexOfString(cssRule.cssText, <<"k", "e", "y", "f", "r", "a", "m", "e", "s">>)))
  ELSE Join(extractSelector(cssRule.cssText, 0))

\* The raw text of native rules, as characters.
KeyframesCssText ==
  <<"@", "k", "e", "y", "f", "r", "a", "m", "e", "s", " ", "p", "u", "l", "s", "e",
    " ", "{", " ", ".", ".", ".", " ", "}">>
MediaCssText ==
  <<"@", "m", "e", "d", "i", "a", " ", "p", "r", "i", "n", "t", " ", "{", " ", "}">>
StyleCssText(sel) == <<sel, " ", "{", " ", "}">>

\* A selector with an escaped character, as the caller writes it and as the
\* engine gives it back.
EscapedSelector == ".c\\:1"
EngineEscapedSelector == ".c\\3A 1"

\* The selectorText the engine gives for the rule it parses from
\* `${selector} {}`: its own spelling of the escapes; an undefined selector
\* is written as the type selector `undefined`.
engineSelectorText(selector) ==
  IF selector = EscapedSelector THEN EngineEscapedSelector ELSE selector

\* Native rules a list given to link() may hold: style rules, a keyframes
\* rule without and with a structured name, a media rule (another kind).
StyleCssRule(i, sel) ==
  [id |-> i, type |-> STYLE_RULE, selectorText |-> sel, name |-> "",
   cssText |-> StyleCssText(sel)]

CssRules ==
  { StyleCssRule("n1", ".c1"),
    StyleCssRule("n2", "a"),
    StyleCssRule("n3", EngineEscapedSelector),
    [id |-> "n4", type |-> KEYFRAMES_RULE, selectorText |-> Undefined, name |-> "",
     cssText |-> KeyframesCssText],
    [id |-> "n5", type |-> KEYFRAMES_RULE, selectorText |-> Undefined, name |-> "pulse",
     cssText |-> KeyframesCssText],
    [id |-> "n6", type |-> 4, selectorText |-> Undefined, name |-> "",
     cssText |-> MediaCssText] }

\* The native rule lists passed to link(): one or two distinct native rules.
CssRuleLists ==
  {<<n>> : n \in CssRules}
    \cup {l \in {<<n, m>> : n \in CssRules, m \in CssRules} : l[1] # l[2]}

\* getUnescapedSelectorsMap(rules): the loop from position i on.
RECURSIVE getUnescapedSelectorsMapFrom(_, _, _, _)
getUnescapedSelectorsMapFrom(rs, idx, i, m) ==
  IF i > Len(idx) THEN m
  ELSE getUnescapedSelectorsMapFrom(rs, idx, i + 1,
         SetProp(m, engineSelectorText(rs[idx[i]].selector), rs[idx[i]].selector))

\* getUnescapedSelectorsMap(rules): engine's spelling -> the rule's selector.
getUnescapedSelectorsMap(rs, idx) == getUnescapedSelectorsMapFrom(rs, idx, 1, EmptyObj)

\* linkRule(rule, cssRule): the rule is bound to the native rule.
linkRule(rule, cssRule) == [rule EXCEPT !.renderable = cssRule]

\* The selector link() looks up for a native rule: the derived one, or with
\* supportEscaping what the map of unescaped selectors has for it.
linkSelector(r, cssRule, opts) ==
  IF opts.supportEscaping
  THEN Prop(getUnescapedSelectorsMap(r.rules, r.index), getSelector(cssRule), Undefined)
  ELSE getSelector(cssRule)

\* RuleList.link: the loop from position i on.
RECURSIVE linkFrom(_, _, _, _)
linkFrom(r, nativeRules, i, opts) ==
  IF i > Len(nativeRules) THEN r
  ELSE LET id == Prop(r.map, linkSelector(r, nativeRules[i], opts), NoRule)
       IN linkFrom(IF id = NoRule THEN r
                   ELSE [r EXCEPT !.rules[id] = linkRule(@, nativeRules[i])],
                   nativeRules, i + 1, opts)

\* RuleList.link(cssRules) on registry r.
link(r, nativeRules, opts) == linkFrom(r, nativeRules, 1, opts)

\* rules.link(cssRules)
LinkWith(nativeRules) ==
  /\ Idle
  /\ SetRegistry(link(Registry, nativeRules, listOptions))
  /\ UNCHANGED <<pass, listOptions, domVars>>

Link == \E nativeRules \in CssRuleLists : LinkWith(nativeRules)

\* Names of the rules added before linking: a style rule and a keyframes rule.
LinkNames == {"a", "@keyframes pulse"}

\* rules.add(name, decl, {selector}) of a style rule named "a", with a
\* generated or an explicit selector, or of the keyframes rule.
AddLinkable ==
  /\ Idle
  /\ Len(rules) < MaxRules
  /\ \E name \in LinkNames, sel \in {Undefined, "b", EscapedSelector} :
       SetRegistry(add(Registry, name, "red", name = "a", sel, NoIndex, "c1"))
  /\ UNCHANGED <<pass, listOptions, domVars>>

\* A RuleList with or without options.supportEscaping.
InitLink ==
  /\ rules = <<>>
  /\ map = EmptyObj
  /\ raw = EmptyObj
  /\ index = <<>>
  /\ classes = EmptyObj
  /\ listOptions \in [supportEscaping : BOOLEAN]
  /\ pass = NoPass
  /\ InitDomVars
  /\ head = <<>>

NextLink ==
  \/ AddLinkable
  \/ Remove
  \/ Link

SpecLink == InitLink /\ [][NextLink]_vars

(***************************************************************************)
(* Claims about the RuleList (checked under SpecRules).                    *)
(***************************************************************************)
InSequence(id) == id \in Range(index)

\* The entries of the lookup map that register a rule under its key.
KeyEntries == {k \in DOMAIN map : rules[map[k]].key = k}

\* C1: after any add and remove calls, the length of the ordered sequence
\* equals the number of rules registered by key in the lookup map.
C1_LengthEqualsKeyCount == Len(index) = Cardinality(KeyEntries)

\* C4: remove(rule) of a rule that is not in the ordered sequence leaves the
\* sequence and the lookup entries of every other rule unchanged.
C4_RemoveAbsentIsNoop ==
  [][\A id \in 1..Len(rules) :
       (~InSequence(id) /\ RemoveRule(id)) =>
         /\ index' = index
         /\ \A k \in DOMAIN map :
              map[k] # id => (k \in DOMAIN map' /\ map'[k] = map[k])]_vars

\* C9: process() hands the hook every rule that was in the sequence when it
\* was called, once each and in sequence order, whatever the hook adds or
\* removes meanwhile; after pos iterations the hook has seen exactly the first
\* pos rules of the sequence as it was at the call.
C9_ProcessVisitsSnapshot ==
  pass.kind = "process" => pass.visited = SubSeq(pass.snapshot, 1, pass.pos)

\* C9 witness: a pass over two rules is complete, the hook changed the
\* sequence meanwhile, and the hook saw the two rules in order.
C9_Witness ==
  /\ pass.kind = "process"
  /\ Len(pass.snapshot) = 2
  /\ pass.pos = 2
  /\ index # pass.snapshot
  /\ pass.visited = pass.snapshot

\* C10: get(name) returns rule R exactly when R is in the ordered sequence
\* and R's key is name.
C10_GetReturnsSequencedRuleOfKey ==
  \A n \in Names \cup DOMAIN map : \A id \in 1..Len(rules) :
    (get(map, n) = id) <=> (InSequence(id) /\ rules[id].key = n)

\* The rules of the sequence whose serialization is not empty, in order.
NonEmptyRules == SelectSeq(index, LAMBDA id : ruleToString(rules[id]) # <<>>)

\* C12: toString() is the non-empty serializations of the rules in sequence
\* order with one separator between each two consecutive ones: serialization
\* k of n is piece 2k - 1 of the 2n - 1 pieces, every even piece is the
\* separator, and there is nothing when no rule has a serialization.
C12_ToStringJoinsNonEmpty ==
  LET str == toString(rules, index)
      n == Len(NonEmptyRules)
  IN /\ Len(str) = (IF n = 0 THEN 0 ELSE 2 * n - 1)
     /\ \A k \in 1..n : <<str[2 * k - 1]>> = ruleToString(rules[NonEmptyRules[k]])
     /\ \A k \in 1..(n - 1) : str[2 * k] = "\n"

\* C12 witness: the sequence is a rule with an empty serialization followed
\* by a rule with a body, and toString() is exactly the second rule's
\* serialization.
C12_Witness ==
  /\ Len(index) = 2
  /\ ruleToString(rules[index[1]]) = <<>>
  /\ ruleToString(rules[index[2]]) # <<>>
  /\ toString(rules, index) = ruleToString(rules[index[2]])

(***************************************************************************)
(* Claims about update (checked under SpecUpdate).                         *)
(***************************************************************************)
\* C11: update(name, data) with a string name regenerates only the rule whose
\* key is name: every rule with another key keeps its serialization, and the
\* ordered sequence is unchanged.
C11_UpdateByNameTouchesOnlyKey ==
  [][\A name \in Names, data \in Datas :
       UpdateNamed(name, data) =>
         /\ index' = index
         /\ \A id \in 1..Len(rules) :
              rules[id].key # name => ruleToString(rules'[id]) = ruleToString(rules[id])]_vars

\* How many times x occurs in sequence s.
Count(s, x) == Cardinality({i \in 1..Len(s) : s[i] = x})

\* C19: when update(data) without a name returns, every rule that was in the
\* ordered sequence when it was called (taken here only when it still is in
\* the sequence at the return) has been regenerated exactly once, whatever
\* the regenerated rules added to or removed from the registry.
C19_UpdateAllVisitsEachOnce ==
  UpdateDone =>
    \A id \in Range(pass.snapshot) \cap Range(index) : Count(pass.visited, id) = 1

(***************************************************************************)
(* Claims about the Rule Linker (checked under SpecLink).                  *)
(***************************************************************************)
\* A keyframes native rule without a structured name whose raw text is
\* "@keyframes pulse { ... }".
NamelessPulse(cssRule) ==
  /\ cssRule.type = KEYFRAMES_RULE
  /\ cssRule.name = ""
  /\ cssRule.cssText = KeyframesCssText

\* C13: for a keyframes native rule without a structured name whose raw text
\* is "@keyframes pulse { ... }", the derived selector is exactly
\* "@keyframes pulse", and link (taken here without escaping support, with a
\* rule registered under that name and no other keyframes rule in the list)
\* binds the native rule to that rule.
C13_KeyframesNameRecovered ==
  [][\A nativeRules \in CssRuleLists :
       (/\ LinkWith(nativeRules)
        /\ ~listOptions.supportEscaping
        /\ get(map, "@keyframes pulse") # NoRule) =>
         \A i \in 1..Len(nativeRules) :
           (/\ NamelessPulse(nativeRules[i])
            /\ \A j \in 1..Len(nativeRules) :
                 j # i => nativeRules[j].type # KEYFRAMES_RULE) =>
             /\ getSelector(nativeRules[i]) = "@keyframes pulse"
             /\ rules'[get(map, "@keyframes pulse")].renderable = nativeRules[i]]_vars

\* The selector a rule is tracked by: a style rule's selector, and the key of
\* a rule of another kind (an at-rule's key is its selector).
trackedSelector(rule) == IF rule.style THEN rule.selector ELSE rule.key

\* C14: link binds a native rule to rule R only when the native rule's
\* derived (with escaping support, de-escaped) selector equals R's selector:
\* every rule that a link call binds to a native rule has that native rule's
\* selector.
C14_LinkBindsOnlyBySelector ==
  [][\A nativeRules \in CssRuleLists :
       LinkWith(nativeRules) =>
         \A id \in 1..Len(rules) :
           rules'[id].renderable # rules[id].renderable =>
             trackedSelector(rules[id]) =
               linkSelector(Registry, rules'[id].renderable, listOptions)]_vars

(***************************************************************************)
(* Claims about attaching and detaching sheets (checked under SpecDom, the *)
(* last one under SpecShared).                                             *)
(***************************************************************************)
\* Sheet s is attached by this step: sheet.attach() on a sheet that is not
\* attached and whose container has no parent.
Attaching(s) ==
  /\ ~attached[s]
  /\ ~hasParent(head, element(s))
  /\ SheetAttach(s)

\* The last node of the host area is sheet s's container.
AtEndOfHead(h, s) == h # <<>> /\ h[Len(h)] = element(s)

\* C2: when sheet S is attached and an attached sheet with a greater index
\* and the same insertionPoint exists, S's container goes immediately before
\* the container of the first such sheet in registration order.
C2_InsertedBeforeHigherSheet ==
  [][\A s \in 1..Len(sheets) :
       (Attaching(s) /\ findHigherSheet(registry, sheets[s]) # NoSheet) =>
         /\ hasParent(head', element(s))
         /\ nextSibling(head', element(s)) = element(findHigherSheet(registry, sheets[s]))]_vars

\* C3: when sheet S is attached, no attached sheet with the same
\* insertionPoint has a greater index, and some attached sheet shares S's
\* insertionPoint, S's container becomes the next sibling of the container of
\* the last such sheet in registration order (taken here only when that
\* container is in the host area), whatever follows that container and
\* whatever S's insertionPoint is.
C3_InsertedAfterHighestSheet ==
  [][\A s \in 1..Len(sheets) :
       (/\ Attaching(s)
        /\ findHigherSheet(registry, sheets[s]) = NoSheet
        /\ findHighestSheet(registry, sheets[s]) # NoSheet
        /\ hasParent(head, element(findHighestSheet(registry, sheets[s])))) =>
         nextSibling(head', element(findHighestSheet(registry, sheets[s]))) = element(s)]_vars

\* C6: the renderer's attach on a container that is in the host document, and
\* its detach on a container that is not, change nothing and do not fail.
C6_AttachDetachAreGuards ==
  \A s \in 1..Len(sheets) :
    /\ hasParent(head, element(s)) => rendererAttach(Dom, s) = Dom
    /\ ~hasParent(head, element(s)) => rendererDetach(Dom, s) = Dom

\* C7: attaching a sheet whose insertionPoint is a node without a parent, no
\* attached sheet sharing that insertionPoint, emits a warning, throws
\* nothing and leaves the container at the end of the host area.
C7_DetachedNodeFallsThrough ==
  [][\A s \in 1..Len(sheets) :
       (/\ Attaching(s)
        /\ sheets[s].insertionPoint.type = "node"
        /\ ~hasParent(head, sheets[s].insertionPoint.node)
        /\ findHighestSheet(registry, sheets[s]) = NoSheet) =>
         /\ last'.warnings = 1
         /\ ~last'.thrown
         /\ AtEndOfHead(head', s)]_vars

\* Sheet s is attached by this step, its insertionPoint is a string that
\* matches no comment of the host area, and no attached sheet shares it.
AttachingAtMissingMarker(s) ==
  /\ Attaching(s)
  /\ sheets[s].insertionPoint.type = "string"
  /\ findCommentNode(head, sheets[s].insertionPoint.text) = NoNode
  /\ findHighestSheet(registry, sheets[s]) = NoSheet

\* C8 as stated: attaching at a string marker that matches no comment puts the
\* container at the end of the host area, emits exactly one warning and
\* throws nothing.
C8_MissingMarkerWarnsOnce ==
  [][\A s \in 1..Len(sheets) :
       AttachingAtMissingMarker(s) =>
         /\ AtEndOfHead(head', s)
         /\ last'.warnings = 1
         /\ ~last'.thrown]_vars

\* C8 as amended: attaching at a string marker that matches no comment puts
\* the container at the end of the host area and throws nothing; it emits
\* exactly one warning, except for the default marker "jss", for which it
\* emits none.
C8_MissingMarkerWarnsUnlessDefault ==
  [][\A s \in 1..Len(sheets) :
       AttachingAtMissingMarker(s) =>
         /\ AtEndOfHead(head', s)
         /\ last'.warnings = (IF sheets[s].insertionPoint.text = "jss" THEN 0 ELSE 1)
         /\ ~last'.thrown]_vars

\* C8 witness: the last call attached a sheet at the marker "custom", which
\* no comment carries: one warning, and the container is the last node.
C8_Witness ==
  /\ last.op = "attach"
  /\ last.warnings = 1
  /\ last.events = <<"deploy", "insert">>
  /\ ~last.thrown
  /\ findCommentNode(head, "custom") = NoNode
  /\ \E s \in 1..Len(sheets) :
       /\ sheets[s].insertionPoint = IPString("custom")
       /\ attached[s]
       /\ AtEndOfHead(head, s)
       /\ \A t \in 1..Len(sheets) :
            t # s => ~(attached[t] /\ sheets[t].insertionPoint = IPString("custom"))

\* Every sheet created so far has the same insertionPoint.
SameInsertionPoint ==
  \A s, t \in 1..Len(sheets) : sheets[s].insertionPoint = sheets[t].insertionPoint

\* C20: when all sheets share one insertionPoint, the containers of the
\* attached sheets are in the host area in the order of their indexes: no
\* attached sheet's container precedes the container of an attached sheet
\* with a strictly lower index.
C20_AttachedInPriorityOrder ==
  SameInsertionPoint =>
    \A s, t \in 1..Len(sheets) :
      (/\ attached[s] /\ hasParent(head, element(s))
       /\ attached[t] /\ hasParent(head, element(t))
       /\ sheets[s].index < sheets[t].index) =>
        IndexOf(head, element(s)) < IndexOf(head, element(t))

(***************************************************************************)
(* Claims about one renderer (checked under SpecRenderer).                 *)
(***************************************************************************)
\* Event a comes before event b in the sequence of events es.
Precedes(es, a, b) ==
  \A j \in 1..Len(es) : es[j] = b => \E i \in 1..(j - 1) : es[i] = a

\* C5: when a sheet that had a successful insertRule (its flag is set) has
\* been detached and is attached again, attach overwrites the container's
\* text with the registry's current serialization before it inserts the
\* container, and the flag is clear afterwards.
C5_ReattachRedeploys ==
  [][\A s \in 1..Len(sheets) :
       (Attaching(s) /\ hasInsertedRules[s]) =>
         /\ textContent'[s] = <<"\n">> \o sheetToString(s) \o <<"\n">>
         /\ "deploy" \in Range(last'.events)
         /\ Precedes(last'.events, "deploy", "insert")
         /\ ~hasInsertedRules'[s]]_vars

\* C5 witness: the last call was an attach that redeployed, cleared the flag
\* and inserted the container, whose text is the current serialization of a
\* registry with a rule in it.
C5_Witness ==
  /\ last.op = "attach"
  /\ last.events = <<"deploy", "reset", "insert">>
  /\ attached[1]
  /\ hasParent(head, element(1))
  /\ ~hasInsertedRules[1]
  /\ sheetToString(1) # <<>>
  /\ textContent[1] = <<"\n">> \o sheetToString(1) \o <<"\n">>

\* The engine is asked to insert rule r's text: the container is in the
\* document and the text is not empty.
EngineAsked(r) == hasParent(head, element(1)) /\ ruleToString(rules[r]) # <<>>

\* C15: when the engine rejects the rule text, insertRule emits a warning,
\* returns false and throws nothing; the native rule list is unchanged and
\* the flag hasInsertedRules is as it was.
C15_RejectedInsertIsAbsorbed ==
  [][\A r \in 1..Len(rules), at \in (0..Len(cssRules[1])) \cup {NoIndex} :
       (EngineAsked(r) /\ InsertRuleWith(r, at, FALSE)) =>
         /\ last'.warnings = 1
         /\ last'.returned = False
         /\ ~last'.thrown
         /\ cssRules' = cssRules
         /\ hasInsertedRules' = hasInsertedRules]_vars

\* C15 witness: the last call was an insertRule the engine rejected, on an
\* attached container that holds a native rule and whose flag is clear.
C15_Witness ==
  /\ last.op = "insertRule"
  /\ last.warnings = 1
  /\ last.returned = False
  /\ ~last.thrown
  /\ hasParent(head, element(1))
  /\ cssRules[1] # <<>>
  /\ ~hasInsertedRules[1]

\* C17: insertRule(rule, i) with an explicit index i in 0..length, i = 0
\* included, and a text the engine accepts puts the new native rule at
\* position i of the list, the other rules keeping their order, and returns
\* the new rule.
C17_InsertAtExplicitIndex ==
  [][\A r \in 1..Len(rules), at \in 0..Len(cssRules[1]) :
       (EngineAsked(r) /\ InsertRuleWith(r, at, TRUE)) =>
         /\ Len(cssRules'[1]) = Len(cssRules[1]) + 1
         /\ cssRules'[1][at + 1] = last'.returned
         /\ last'.returned \notin Range(cssRules[1])
         /\ Splice(cssRules'[1], at, 1, <<>>) = cssRules[1]]_vars

\* C16: replaceRule(cssRule, rule), for cssRule at any position of the list
\* (taken here after the first, where insertRule is given a non-zero index)
\* and a rule the engine accepts, leaves the list as long as it was, without
\* cssRule, with the new native rule where cssRule was; it returns the new
\* rule, a member of the list.
C16_ReplaceKeepsPosition ==
  [][\A i \in 2..Len(cssRules[1]), r \in 1..Len(rules) :
       (EngineAsked(r) /\ ReplaceRuleWith(i, r, TRUE)) =>
         /\ Len(cssRules'[1]) = Len(cssRules[1])
         /\ cssRules[1][i] \notin Range(cssRules'[1])
         /\ cssRules'[1][i] = last'.returned
         /\ last'.returned \notin Range(cssRules[1])]_vars

\* A call of the renderer of sheet 1 is made by this step.
RendererCall == InsertRule \/ DeleteRule \/ ReplaceRule \/ Deploy \/ Attach \/ Detach

\* C18: hasInsertedRules is true exactly when a per-rule insertion has
\* succeeded since the container's last full deploy, direct or by attach:
\* the flag is false at first, a call that deploys and inserts no rule
\* afterwards leaves it false, a call that inserts a rule leaves it true,
\* and any other step leaves it as it was.
C18_FlagTracksInsertionsSinceDeploy ==
  [][/\ (RendererCall /\ "insertRule" \in Range(last'.events)) => hasInsertedRules'[1]
     /\ (RendererCall /\ "deploy" \in Range(last'.events)
                       /\ "insertRule" \notin Range(last'.events)) => ~hasInsertedRules'[1]
     /\ ~(RendererCall /\ ("insertRule" \in Range(last'.events)
                             \/ "deploy" \in Range(last'.events))) =>
          hasInsertedRules' = hasInsertedRules]_vars

====
